---------------------------- MODULE Spec2Model ----------------------------
(***************************************************************************)
(* A model of MyVector/vector.h: RawMemory<T> (a block of raw storage) and *)
(* Vector<T> (the growable array built on it).                             *)
(*                                                                         *)
(* The heap is a map from block ids to blocks; a block is a sequence of    *)
(* slots; a slot is Raw (no object lives there) or holds the value of the  *)
(* live object constructed there.  Every handler of Vector is translated   *)
(* statement by statement into an operator on a "world" w (heap, objects,  *)
(* the exception in flight), and one action per handler commits the world  *)
(* the handler ends in, whether it returned or threw.                      *)
(*                                                                         *)
(* The element type T is an input of the model (variable T):               *)
(*   "int"      trivially copyable, nothing throws, relocated by move      *)
(*              (is_nothrow_move_constructible), default-initialisation    *)
(*              leaves the value indeterminate;                            *)
(*   "Thrower"  a class whose copy constructor may throw and whose move    *)
(*              constructor is not noexcept (and does not throw):          *)
(*              relocated by copy;                                         *)
(*   "MoveOnly" a class with no copy constructor whose move constructor    *)
(*              may throw: relocated by move.                              *)
(* Assignment operators and destructors of T do not throw.                 *)
(***************************************************************************)
EXTENDS Integers, Sequences, FiniteSets, TLC

\* ------------------------------------------------------------------ bounds
MaxCap == 4          \* largest capacity implicit growth may reach (one Vector)
MaxArg == 3          \* largest n of Vector(n), Reserve(n), Resize(n) (one Vector)
MaxCapPair == 1      \* largest capacity and largest n with two Vectors
MaxVal == 1          \* element values are 0..MaxVal
MaxBlocks == 3       \* heap blocks that can be allocated at one time
MaxFaults == 1       \* exceptions injected in one behaviour
MaxRawCap == 2       \* largest RawMemory the RawMemory specification builds

\* ------------------------------------------------------------- vocabulary
Raw == -1            \* a slot of raw storage holding no live object
MovedFrom == -2      \* the value of a live class object that was moved from
Indet == -3          \* an indeterminate value, resolved when the handler ends
NullPtr == 0         \* nullptr: the buffer_ of an empty RawMemory

Values == 0..MaxVal
BlockIds == 1..MaxBlocks
VecIds == {"a", "b"}
RawIds == {"r1", "r2"}
ElemTypes == {"int", "Thrower", "MoveOnly"}

VARIABLES
    heap,        \* [BlockIds -> [used, slots]]: operator new / operator delete
    vec,         \* [VecIds -> [alive, data_ : [buffer_, capacity_], size_]]
    raw,         \* [RawIds -> [alive, buffer_, capacity_]]: stand-alone RawMemory
    T,           \* the element type the Vectors are instantiated with
    faults,      \* exceptions thrown by constructors so far
    last         \* the last handler run: its name, arguments and outcome

vars == <<heap, vec, raw, T, faults, last>>

\* ------------------------------------------------------------ type traits
NothrowMoveConstructible == T = "int"
CopyConstructible == T # "MoveOnly"
CopyMayThrow == T = "Thrower"
MoveMayThrow == T = "MoveOnly"
TrivialDefault == T = "int"

\* --------------------------------------------------------------- the heap
FreeBlock == [used |-> FALSE, slots |-> <<>>]
RawSlots(n) == [i \in 1..n |-> Raw]
IsLive(s) == s # Raw
LiveCount(slots) == Cardinality({i \in 1..Len(slots) : IsLive(slots[i])})

\* A pointer T* is <<block, offset>>.
Ptr(b, i) == <<b, i>>
At(w, p) == w.h[p[1]].slots[p[2] + 1]
SetAt(w, p, s) == [w EXCEPT !.h[p[1]].slots[p[2] + 1] = s]

\* The value a read of slot s yields: reading where no object lives is
\* undefined behaviour, modelled as an indeterminate value.
ReadVal(s) == IF s = Raw THEN Indet ELSE s

\* The world a handler starts in.  The injected failure ft: 0 none, -1 the
\* allocation fails (af), f > 0 the f-th call of a constructor that can throw
\* does throw.
World(ft) ==
    [h |-> heap, V |-> vec, f |-> IF ft > 0 THEN ft ELSE 0, af |-> (ft = -1),
     ex |-> FALSE, leak |-> 0, ub |-> 0, ret |-> -1]

\* One call of a constructor that can throw.
Tick(w) == IF w.f = 0 THEN w ELSE [w EXCEPT !.f = @ - 1, !.ex = (w.f = 1)]

\* RawMemory::Allocate: operator new(n * sizeof(T)), or nullptr for n = 0.
NewBlock(h) == CHOOSE b \in BlockIds : ~h[b].used /\ \A c \in BlockIds : ~h[c].used => b <= c
Allocate(w, n) ==
    IF n = 0 THEN [w |-> w, p |-> NullPtr]
    ELSE IF w.af THEN [w |-> [w EXCEPT !.ex = TRUE], p |-> NullPtr]
    ELSE LET b == NewBlock(w.h)
         IN [w |-> [w EXCEPT !.h[b] = [used |-> TRUE, slots |-> RawSlots(n)]], p |-> b]

\* RawMemory::Deallocate: operator delete(buf).  Objects still alive in the
\* block are never destroyed: they are counted as leaked.
Deallocate(w, buf) ==
    IF buf = NullPtr THEN w
    ELSE [w EXCEPT !.leak = @ + LiveCount(w.h[buf].slots), !.h[buf] = FreeBlock]

\* ------------------------------------------------------------- RawMemory
EmptyRawMemory == [buffer_ |-> NullPtr, capacity_ |-> 0]

\* RawMemory(size_t capacity)
RawMemoryCtor(w, capacity) ==
    LET a == Allocate(w, capacity)
    IN [w |-> a.w, r |-> [buffer_ |-> a.p, capacity_ |-> capacity]]

\* RawMemory(RawMemory&& other): <<the new object, other afterwards>>
RawMemoryMoveCtor(other) ==
    <<[buffer_ |-> other.buffer_, capacity_ |-> other.capacity_], EmptyRawMemory>>

\* operator=(RawMemory&& other): <<*this afterwards, other afterwards>>
RawMemoryMoveAssign(this, other) ==
    <<[buffer_ |-> other.buffer_, capacity_ |-> other.capacity_],
      [buffer_ |-> this.buffer_, capacity_ |-> other.capacity_]>>

\* RawMemory::Swap: <<*this afterwards, other afterwards>>
RawMemorySwap(this, other) == <<other, this>>

\* ~RawMemory()
RawMemoryDtor(w, r) == Deallocate(w, r.buffer_)

\* ------------------------------------------------- construct and destroy
\* Placement new of an object of value val at p.  Constructing over a live
\* object ends that object's lifetime without destroying it: a leak.
Construct(w, p, val) ==
    LET w1 == IF IsLive(At(w, p)) THEN [w EXCEPT !.leak = @ + 1] ELSE w
    IN SetAt(w1, p, val)

\* Vector::Destroy: buf->~T().  Destroying where no object lives is undefined
\* behaviour (a second destruction); it is counted and the slot stays raw.
Destroy(w, p) ==
    IF IsLive(At(w, p)) THEN SetAt(w, p, Raw) ELSE [w EXCEPT !.ub = @ + 1]

\* Vector::DestroyN
RECURSIVE DestroyFrom(_, _, _, _)
DestroyFrom(w, buf, n, i) ==
    IF i >= n THEN w ELSE DestroyFrom(Destroy(w, Ptr(buf[1], buf[2] + i)), buf, n, i + 1)
DestroyN(w, buf, n) == DestroyFrom(w, buf, n, 0)

\* T(const T&): the copy constructor, which throws for a Thrower when told to.
CopyConstruct(w, p, val) ==
    IF CopyMayThrow
    THEN LET w1 == Tick(w) IN IF w1.ex THEN w1 ELSE Construct(w1, p, val)
    ELSE Construct(w, p, val)

\* What a move leaves in its source: an int keeps its value, a class object
\* is left moved-from.
AfterMove(s) == IF T = "int" THEN s ELSE MovedFrom

\* T(T&&) from the object at src into the raw slot p.
MoveConstruct(w, p, src) ==
    LET w1 == IF MoveMayThrow THEN Tick(w) ELSE w
    IN IF w1.ex THEN w1
       ELSE LET w2 == Construct(w1, p, ReadVal(At(w1, src)))
            IN IF IsLive(At(w1, src)) THEN SetAt(w2, src, AfterMove(At(w1, src))) ELSE w2

\* T& operator=(T&&) / operator=(const T&) onto the object at p.  Assigning to
\* a slot where no object lives is undefined behaviour: counted, and the
\* bytes are written.
Assign(w, p, val) ==
    LET w1 == IF IsLive(At(w, p)) THEN w ELSE [w EXCEPT !.ub = @ + 1]
    IN SetAt(w1, p, val)
MoveAssign(w, p, src) ==
    LET v == ReadVal(At(w, src))
        w1 == IF IsLive(At(w, src)) THEN SetAt(w, src, AfterMove(At(w, src))) ELSE w
    IN Assign(w1, p, v)

\* --------------------------------------------------------- std algorithms
\* std::uninitialized_copy_n(first, n, d_first): when a copy throws, the
\* objects it had constructed are destroyed and the exception goes on.
RECURSIVE UninitCopyFrom(_, _, _, _, _)
UninitCopyFrom(w, first, n, dst, i) ==
    IF i >= n THEN w
    ELSE LET w1 == CopyConstruct(w, Ptr(dst[1], dst[2] + i),
                                 ReadVal(At(w, Ptr(first[1], first[2] + i))))
         IN IF w1.ex THEN DestroyN(w1, dst, i)
            ELSE UninitCopyFrom(w1, first, n, dst, i + 1)

\* A faulty uninitialized_copy_n that leaves the copies it made when a later
\* copy throws (the variant C5 is checked against).
RECURSIVE CopyNoRollbackFrom(_, _, _, _, _)
CopyNoRollbackFrom(w, first, n, dst, i) ==
    IF i >= n THEN w
    ELSE LET w1 == CopyConstruct(w, Ptr(dst[1], dst[2] + i),
                                 ReadVal(At(w, Ptr(first[1], first[2] + i))))
         IN IF w1.ex THEN w1
            ELSE CopyNoRollbackFrom(w1, first, n, dst, i + 1)
CopyNoRollback(w, first, n, dst) == CopyNoRollbackFrom(w, first, n, dst, 0)
UninitializedCopyN(w, first, n, dst) == UninitCopyFrom(w, first, n, dst, 0)

\* std::uninitialized_move_n: the same with move construction; the sources
\* already moved stay moved-from when a later move throws.
RECURSIVE UninitMoveFrom(_, _, _, _, _)
UninitMoveFrom(w, first, n, dst, i) ==
    IF i >= n THEN w
    ELSE LET w1 == MoveConstruct(w, Ptr(dst[1], dst[2] + i), Ptr(first[1], first[2] + i))
         IN IF w1.ex THEN DestroyN(w1, dst, i)
            ELSE UninitMoveFrom(w1, first, n, dst, i + 1)
UninitializedMoveN(w, first, n, dst) == UninitMoveFrom(w, first, n, dst, 0)

\* A faulty relocation that constructs nothing in the new block (the variant
\* C2 is checked against).
RelocateNothing(w, data, n, new_data) == w

\* Vector::MoveOrCopyUninitialized
MoveOrCopyUninitialized(w, data, n, new_data) ==
    IF NothrowMoveConstructible \/ ~CopyConstructible
    THEN UninitializedMoveN(w, data, n, new_data)
    ELSE UninitializedCopyN(w, data, n, new_data)


\* ------------------------------------------------------------------ Vector
Locals == {"other_copy"}     \* the local Vector of operator=(const Vector&)
NoVector == [alive |-> FALSE, data_ |-> EmptyRawMemory, size_ |-> 0]

Size(w, v) == w.V[v].size_
Capacity(w, v) == w.V[v].data_.capacity_
GetAddress(w, v) == Ptr(w.V[v].data_.buffer_, 0)
Plus(w, v, offset) == Ptr(w.V[v].data_.buffer_, offset)      \* data_ + offset

\* An argument "const T& value" / "Types&&... args": a value of the caller's
\* (ext) or a reference to the object at p.
ExtArg(x) == [ext |-> TRUE, x |-> x, p |-> Ptr(NullPtr, 0)]
RefArg(p) == [ext |-> FALSE, x |-> 0, p |-> p]
ArgRead(w, arg) == IF arg.ext THEN arg.x ELSE ReadVal(At(w, arg.p))

\* new (p) T(std::forward<Types>(args)...): for int and Thrower the copy
\* constructor, for MoveOnly a constructor from the arguments (never throws).
EmplaceConstruct(w, p, arg) == CopyConstruct(w, p, ArgRead(w, arg))

\* Vector()
VectorCtor(w, v) ==
    [w EXCEPT !.V[v] = [alive |-> TRUE, data_ |-> EmptyRawMemory, size_ |-> 0]]

\* std::uninitialized_value_construct_n: T() is 0
RECURSIVE ValueConstructFrom(_, _, _, _)
ValueConstructFrom(w, buf, n, i) ==
    IF i >= n THEN w
    ELSE ValueConstructFrom(Construct(w, Ptr(buf[1], buf[2] + i), 0), buf, n, i + 1)
UninitializedValueConstructN(w, buf, n) == ValueConstructFrom(w, buf, n, 0)

\* std::uninitialized_default_construct_n: default-initialisation, which for
\* int writes nothing (the value is indeterminate) and for a class runs T()
DefaultValue == IF TrivialDefault THEN Indet ELSE 0
RECURSIVE DefaultConstructFrom(_, _, _, _)
DefaultConstructFrom(w, buf, n, i) ==
    IF i >= n THEN w
    ELSE DefaultConstructFrom(Construct(w, Ptr(buf[1], buf[2] + i), DefaultValue),
                              buf, n, i + 1)
UninitializedDefaultConstructN(w, buf, n) == DefaultConstructFrom(w, buf, n, 0)

\* explicit Vector(size_t size)
VectorSizedCtor(w, v, size) ==
    LET a == RawMemoryCtor(w, size)
    IN IF a.w.ex THEN a.w
       ELSE LET w1 == UninitializedValueConstructN(a.w, Ptr(a.r.buffer_, 0), size)
            IN [w1 EXCEPT !.V[v] = [alive |-> TRUE, data_ |-> a.r, size_ |-> size]]

\* Vector(const Vector& other): when a copy throws, the member data_ is
\* destroyed and no Vector comes to exist.
VectorCopyCtor(w, v, other) ==
    LET n == Size(w, other)
        a == RawMemoryCtor(w, n)
    IN IF a.w.ex THEN a.w
       ELSE LET w1 == UninitializedCopyN(a.w, GetAddress(w, other), n, Ptr(a.r.buffer_, 0))
            IN IF w1.ex THEN RawMemoryDtor(w1, a.r)
               ELSE [w1 EXCEPT !.V[v] = [alive |-> TRUE, data_ |-> a.r, size_ |-> n]]

\* A faulty move constructor that copies other.size_ without zeroing it (the
\* variant C12 is checked against).
VectorMoveKeepSize(w, v, other) ==
    LET m == RawMemoryMoveCtor(w.V[other].data_)
    IN [w EXCEPT !.V[v] = [alive |-> TRUE, data_ |-> m[1], size_ |-> w.V[other].size_],
                 !.V[other].data_ = m[2]]

\* Vector(Vector&& other) noexcept
VectorMoveCtor(w, v, other) ==
    LET m == RawMemoryMoveCtor(w.V[other].data_)
    IN [w EXCEPT !.V[v] = [alive |-> TRUE, data_ |-> m[1], size_ |-> w.V[other].size_],
                 !.V[other] = [alive |-> TRUE, data_ |-> m[2], size_ |-> 0]]

\* ~Vector(), then ~RawMemory() of data_
VectorDtor(w, v) ==
    LET w1 == DestroyN(w, GetAddress(w, v), Size(w, v))
        w2 == RawMemoryDtor(w1, w1.V[v].data_)
    IN [w2 EXCEPT !.V[v] = NoVector]

\* void Swap(Vector& other) noexcept
Swap(w, v, other) ==
    LET s == RawMemorySwap(w.V[v].data_, w.V[other].data_)
        w1 == [w EXCEPT !.V[v].data_ = s[1]]
        w2 == [w1 EXCEPT !.V[other].data_ = IF other = v THEN s[1] ELSE s[2]]
        n1 == w2.V[v].size_
        n2 == w2.V[other].size_
        w3 == [w2 EXCEPT !.V[v].size_ = n2]
    IN [w3 EXCEPT !.V[other].size_ = IF other = v THEN n2 ELSE n1]

\* std::copy_n(first, n, d_first): copy assignment, element by element
RECURSIVE CopyFrom(_, _, _, _, _)
CopyFrom(w, first, n, dst, i) ==
    IF i >= n THEN w
    ELSE CopyFrom(Assign(w, Ptr(dst[1], dst[2] + i),
                         ReadVal(At(w, Ptr(first[1], first[2] + i)))),
                  first, n, dst, i + 1)
\* A faulty copy_n that assigns nothing (the variant C13 is checked against).
CopyNothing(w, first, n, dst) == w
CopyN(w, first, n, dst) == CopyFrom(w, first, n, dst, 0)

Min(a, b) == IF a < b THEN a ELSE b

\* A copy assignment that always copies and swaps, the reading under which
\* copy assignment shrinks capacity (the variant C9 is checked against).
CopyAndSwap(w, v, other) ==
    IF v = other THEN w
    ELSE LET w1 == VectorCopyCtor(w, "other_copy", other)
         IN IF w1.ex THEN w1
            ELSE VectorDtor(Swap(w1, v, "other_copy"), "other_copy")

\* Vector& operator=(const Vector& other)
CopyAssign(w, v, other) ==
    LET wa ==
          IF v # other
          THEN IF Size(w, other) > Capacity(w, v)
               THEN LET w1 == VectorCopyCtor(w, "other_copy", other)
                    IN IF w1.ex THEN w1
                       ELSE VectorDtor(Swap(w1, v, "other_copy"), "other_copy")
               ELSE LET min_size == Min(Size(w, other), Size(w, v))
                        w1 == CopyN(w, GetAddress(w, other), min_size, GetAddress(w, v))
                    IN IF Size(w, other) < Size(w, v)
                       THEN DestroyN(w1, Plus(w, v, min_size), Size(w, v) - min_size)
                       ELSE UninitializedCopyN(w1, Plus(w, other, min_size),
                                               Size(w, other) - Size(w, v),
                                               Plus(w, v, min_size))
          ELSE w
    IN IF wa.ex THEN wa ELSE [wa EXCEPT !.V[v].size_ = Size(wa, other)]

\* Vector& operator=(Vector&& other)
MoveAssignVector(w, v, other) == Swap(w, v, other)

\* A faulty Reserve that returns early only for new_capacity < Capacity(), so
\* that Reserve(Capacity()) relocates (the variant C15 is checked against).
ReserveWhenEqual(w, v, new_capacity) ==
    IF new_capacity < Capacity(w, v) THEN w
    ELSE LET a == RawMemoryCtor(w, new_capacity)
         IN IF a.w.ex THEN a.w
            ELSE LET w1 == MoveOrCopyUninitialized(a.w, GetAddress(w, v), Size(w, v),
                                                   Ptr(a.r.buffer_, 0))
                 IN IF w1.ex THEN RawMemoryDtor(w1, a.r)
                    ELSE LET w2 == DestroyN(w1, GetAddress(w, v), Size(w, v))
                             s == RawMemorySwap(w2.V[v].data_, a.r)
                         IN RawMemoryDtor([w2 EXCEPT !.V[v].data_ = s[1]], s[2])

\* void Reserve(size_t new_capacity)
Reserve(w, v, new_capacity) ==
    IF new_capacity <= Capacity(w, v) THEN w
    ELSE LET a == RawMemoryCtor(w, new_capacity)
         IN IF a.w.ex THEN a.w
            ELSE LET w1 == MoveOrCopyUninitialized(a.w, GetAddress(w, v), Size(w, v),
                                                   Ptr(a.r.buffer_, 0))
                 IN IF w1.ex THEN RawMemoryDtor(w1, a.r)
                    ELSE LET w2 == DestroyN(w1, GetAddress(w, v), Size(w, v))
                             s == RawMemorySwap(w2.V[v].data_, a.r)
                         IN RawMemoryDtor([w2 EXCEPT !.V[v].data_ = s[1]], s[2])

\* A faulty Resize that has set size_ when Reserve throws (the variant C14 is
\* checked against).
ResizeSizeFirst(w, v, new_size) ==
    IF new_size > Size(w, v)
    THEN LET w1 == IF new_size > Capacity(w, v) THEN Reserve(w, v, new_size) ELSE w
         IN IF w1.ex THEN [w1 EXCEPT !.V[v].size_ = new_size]
            ELSE LET w2 == UninitializedDefaultConstructN(w1, Plus(w1, v, Size(w1, v)),
                                                          new_size - Size(w1, v))
                 IN [w2 EXCEPT !.V[v].size_ = new_size]
    ELSE LET w1 == DestroyN(w, Plus(w, v, new_size), Size(w, v) - new_size)
         IN [w1 EXCEPT !.V[v].size_ = new_size]

\* void Resize(size_t new_size)
Resize(w, v, new_size) ==
    IF new_size > Size(w, v)
    THEN LET w1 == IF new_size > Capacity(w, v) THEN Reserve(w, v, new_size) ELSE w
         IN IF w1.ex THEN w1
            ELSE LET w2 == UninitializedDefaultConstructN(w1, Plus(w1, v, Size(w1, v)),
                                                          new_size - Size(w1, v))
                 IN [w2 EXCEPT !.V[v].size_ = new_size]
    ELSE LET w1 == DestroyN(w, Plus(w, v, new_size), Size(w, v) - new_size)
         IN [w1 EXCEPT !.V[v].size_ = new_size]

\* A faulty growth by one slot (the variant C10 is checked against).
GrowByOne(size) == size + 1

\* The capacity implicit growth asks for: size_ == 0 ? 1 : size_ * 2
GrowthCapacity(size) == IF size = 0 THEN 1 ELSE size * 2

\* T& EmplaceBack(Types&&... args); ret is the index of the returned element
EmplaceBack(w, v, arg) ==
    LET size == Size(w, v)
    IN IF size = Capacity(w, v)
       THEN LET a == RawMemoryCtor(w, GrowthCapacity(size))
                new_data == a.r
            IN IF a.w.ex THEN a.w
               ELSE LET w1 == EmplaceConstruct(a.w, Ptr(new_data.buffer_, size), arg)
                    IN IF w1.ex THEN RawMemoryDtor(w1, new_data)
                       ELSE LET w2 == MoveOrCopyUninitialized(w1, GetAddress(w, v), size,
                                                              Ptr(new_data.buffer_, 0))
                            IN IF w2.ex THEN RawMemoryDtor(w2, new_data)
                               ELSE LET w3 == DestroyN(w2, GetAddress(w, v), size)
                                        s == RawMemorySwap(w3.V[v].data_, new_data)
                                        w4 == [w3 EXCEPT !.V[v].data_ = s[1],
                                                         !.V[v].size_ = size + 1,
                                                         !.ret = size]
                                    IN RawMemoryDtor(w4, s[2])
       ELSE LET w1 == EmplaceConstruct(w, Plus(w, v, size), arg)
            IN IF w1.ex THEN w1
               ELSE [w1 EXCEPT !.V[v].size_ = size + 1, !.ret = size]

\* void PushBack(const T& value) / PushBack(T&& value)
PushBack(w, v, arg) == EmplaceBack(w, v, arg)

\* A faulty PopBack that forgets the destructor call (the variant C1 is
\* checked against).
PopBackNoDestroy(w, v) ==
    IF Size(w, v) # 0 THEN [w EXCEPT !.V[v].size_ = @ - 1] ELSE w

\* void PopBack()
PopBack(w, v) ==
    IF Size(w, v) # 0
    THEN [Destroy(w, Plus(w, v, Size(w, v) - 1)) EXCEPT !.V[v].size_ = @ - 1]
    ELSE w

\* void InsertionWithRelocation(int pos_index, Types&&... args)
InsertionWithRelocation(w, v, pos_index, arg) ==
    LET size == Size(w, v)
        a == RawMemoryCtor(w, GrowthCapacity(size))
        new_data == a.r
    IN IF a.w.ex THEN a.w
       ELSE LET w1 == EmplaceConstruct(a.w, Ptr(new_data.buffer_, pos_index), arg)
            IN IF w1.ex THEN RawMemoryDtor(w1, new_data)
               ELSE LET w2 == MoveOrCopyUninitialized(w1, GetAddress(w, v), pos_index,
                                                      Ptr(new_data.buffer_, 0))
                    IN IF w2.ex
                       THEN \* catch (...) { Destroy(data_ + pos_index); throw; }
                            RawMemoryDtor(Destroy(w2, Plus(w, v, pos_index)), new_data)
                       ELSE LET w3 == MoveOrCopyUninitialized(
                                          w2, Plus(w, v, pos_index), size - pos_index,
                                          Ptr(new_data.buffer_, pos_index + 1))
                            IN IF w3.ex
                               THEN \* catch (...) { DestroyN(new_data.GetAddress(), pos_index); throw; }
                                    RawMemoryDtor(
                                        DestroyN(w3, Ptr(new_data.buffer_, 0), pos_index),
                                        new_data)
                               ELSE LET w4 == DestroyN(w3, GetAddress(w, v), size)
                                        s == RawMemorySwap(w4.V[v].data_, new_data)
                                    IN RawMemoryDtor([w4 EXCEPT !.V[v].data_ = s[1]], s[2])

\* A faulty shift that moves nothing (the variant C16 is checked against).
ShiftNothing(w, buf, first, lst, d_first) == w

\* std::move(first, last, d_first) within one block: move-assigned first to last
RECURSIVE MoveRange(_, _, _, _, _)
MoveRange(w, buf, first, lst, d_first) ==
    IF first >= lst THEN w
    ELSE MoveRange(MoveAssign(w, Ptr(buf, d_first), Ptr(buf, first)),
                   buf, first + 1, lst, d_first + 1)

\* A faulty shift that moves first to last, as std::move would, where the
\* ranges overlap (the variant C6 is checked against).
MoveForward(w, buf, first, lst, d_last) ==
    MoveRange(w, buf, first, lst, d_last - (lst - first))

\* std::move_backward(first, last, d_last) within one block: the elements
\* [first, last) are move-assigned, last one first, to the range ending at d_last
RECURSIVE MoveBackward(_, _, _, _, _)
MoveBackward(w, buf, first, lst, d_last) ==
    IF lst <= first THEN w
    ELSE MoveBackward(MoveAssign(w, Ptr(buf, d_last - 1), Ptr(buf, lst - 1)),
                      buf, first, lst - 1, d_last - 1)

\* The temporary T(std::forward<Types>(args)...) of InsertionWithoutRelocation
TempConstruct(w) == IF CopyMayThrow THEN Tick(w) ELSE w

\* void InsertionWithoutRelocation(int pos_index, Types&&... args)
InsertionWithoutRelocation(w, v, pos_index, arg) ==
    LET size == Size(w, v)
        buf == w.V[v].data_.buffer_
        w1 == MoveConstruct(w, Ptr(buf, size), Ptr(buf, size - 1))
    IN IF w1.ex THEN w1
       ELSE LET w2 == MoveBackward(w1, buf, pos_index, size - 1, size)
                w3 == TempConstruct(w2)
            IN IF w3.ex THEN w3
               ELSE Assign(w3, Ptr(buf, pos_index), ArgRead(w3, arg))

\* iterator Emplace(const_iterator pos, Types&&... args), pos == begin() + k;
\* ret is the offset of the returned iterator from begin()
Emplace(w, v, k, arg) ==
    IF k = Size(w, v)
    THEN LET w1 == EmplaceBack(w, v, arg)
         IN IF w1.ex THEN w1 ELSE [w1 EXCEPT !.ret = Size(w1, v) - 1]
    ELSE LET pos_index == k
             w1 == IF Size(w, v) = Capacity(w, v)
                   THEN InsertionWithRelocation(w, v, pos_index, arg)
                   ELSE InsertionWithoutRelocation(w, v, pos_index, arg)
         IN IF w1.ex THEN w1
            ELSE [w1 EXCEPT !.V[v].size_ = @ + 1, !.ret = pos_index]

\* iterator Insert(const_iterator pos, const T& value) / Insert(pos, T&& value)
Insert(w, v, k, arg) == Emplace(w, v, k, arg)

\* A faulty Erase that removes the last element whatever pos is (the variant
\* C11 is checked against).
EraseLast(w, v, k) == [PopBack(w, v) EXCEPT !.ret = k]

\* iterator Erase(const_iterator pos), pos == begin() + k
Erase(w, v, k) ==
    LET pos_index == k
        w1 == MoveRange(w, w.V[v].data_.buffer_, pos_index + 1, Size(w, v), pos_index)
        w2 == PopBack(w1, v)
    IN [w2 EXCEPT !.ret = pos_index]


\* ---------------------------------------------------------------- actions
\* The heaps a handler's final heap stands for: every indeterminate value is
\* any value.
IndetAt(h) ==
    UNION {{<<b, i>> : i \in {j \in 1..Len(h[b].slots) : h[b].slots[j] = Indet}} :
           b \in BlockIds}
Resolve(h) ==
    IF IndetAt(h) = {} THEN {h} ELSE
    {[b \in BlockIds |->
        [used |-> h[b].used,
         slots |-> [i \in 1..Len(h[b].slots) |->
                       IF h[b].slots[i] = Indet THEN g[<<b, i>>] ELSE h[b].slots[i]]]] :
     g \in [IndetAt(h) -> Values]}

\* operator new may return any free address and the program looks at an
\* address only to compare it with another: when a handler ends, the blocks
\* are renumbered in the order of their owners (a, b, r1, r2).
Owners(V, R) ==
    <<V["a"].data_.buffer_, V["b"].data_.buffer_, V["other_copy"].data_.buffer_,
      R["r1"].buffer_, R["r2"].buffer_>>
FirstAt(seq, b) == CHOOSE i \in 1..Len(seq) : seq[i] = b /\ \A j \in 1..(i - 1) : seq[j] # b
Owned(seq) == {seq[i] : i \in 1..Len(seq)} \ {NullPtr}
Rank(h, seq, b) ==
    IF b = NullPtr THEN NullPtr
    ELSE IF b \in Owned(seq)
    THEN Cardinality({seq[j] : j \in 1..(FirstAt(seq, b) - 1)} \ {NullPtr}) + 1
    ELSE Cardinality(Owned(seq))
         + Cardinality({c \in BlockIds : h[c].used /\ c \notin Owned(seq) /\ c <= b})
Canonical(h, seq) ==
    /\ \A i \in 1..Len(seq) : seq[i] # NullPtr =>
           seq[i] = Cardinality({seq[j] : j \in 1..(i - 1)} \ {NullPtr}) + 1
    /\ \A b \in BlockIds : h[b].used => b \in Owned(seq)
RenumberHeap(h, seq) ==
    IF Canonical(h, seq) THEN h ELSE
    [i \in BlockIds |->
        IF \E b \in BlockIds : h[b].used /\ Rank(h, seq, b) = i
        THEN h[CHOOSE b \in BlockIds : h[b].used /\ Rank(h, seq, b) = i]
        ELSE FreeBlock]
RenumberVec(h, seq, V) ==
    IF Canonical(h, seq) THEN V ELSE
    [v \in DOMAIN V |-> [V[v] EXCEPT !.data_.buffer_ = Rank(h, seq, @)]]
RenumberRaw(h, seq, R) ==
    IF Canonical(h, seq) THEN R ELSE
    [r \in DOMAIN R |-> [R[r] EXCEPT !.buffer_ = Rank(h, seq, @)]]

Outcome(w) == IF ~w.ex THEN "ok" ELSE IF w.af THEN "bad_alloc" ELSE "throw"

\* The failures that can be injected into a handler that constructs at most
\* n + 1 elements: none when the behaviour's budget of exceptions is spent,
\* no constructor failure for int.
FaultsFor(n) ==
    IF faults >= MaxFaults THEN {0}
    ELSE IF T = "int" THEN {-1, 0}
    ELSE -1..(n + 1)

\* The injected failure ft is one the handler met: it threw exactly when told to.
Injected(ft, w) ==
    /\ w.ex <=> (ft # 0)
    /\ w.f = 0

\* What a Vector looks like from outside: its block's slots, and its elements
\* data()[0 .. size).
Slots(v) == IF vec[v].data_.buffer_ = NullPtr THEN <<>> ELSE heap[vec[v].data_.buffer_].slots
Elems(v) == [i \in 1..vec[v].size_ |-> Slots(v)[i]]

\* The handler op(v, o, k, x) ended in world w: its effects become the state.
\* For an Insert that returned, last.pre keeps the elements v held before it.
Commit(w, op, v, o, k, x) ==
    /\ \E hz \in Resolve(w.h) :
          LET seq == Owners(w.V, raw)
          IN /\ heap' = RenumberHeap(hz, seq)
             /\ vec' = RenumberVec(hz, seq, w.V)
    /\ faults' = faults + (IF w.ex /\ ~w.af THEN 1 ELSE 0)
    /\ last' = [op |-> op, v |-> v, o |-> o, k |-> k, x |-> x, out |-> Outcome(w),
                ret |-> w.ret, leak |-> w.leak, ub |-> w.ub,
                realloc |-> (w.V[v].data_.buffer_ # vec[v].data_.buffer_),
                pre |-> IF op = "Insert" /\ ~w.ex THEN Elems(v) ELSE <<>>]
    /\ UNCHANGED <<raw, T>>

Alive(v) == vec[v].alive

DoVector(v) ==
    /\ ~Alive(v)
    /\ Commit(VectorCtor(World(0), v), "Vector", v, v, -1, -1)

DoVectorSized(v, n, ft) ==
    /\ ~Alive(v)
    /\ LET w == VectorSizedCtor(World(ft), v, n)
       IN Injected(ft, w) /\ Commit(w, "VectorSized", v, v, n, -1)

DoVectorCopy(v, o, ft) ==
    /\ ~Alive(v) /\ Alive(o) /\ CopyConstructible
    /\ LET w == VectorCopyCtor(World(ft), v, o)
       IN Injected(ft, w) /\ Commit(w, "VectorCopy", v, o, -1, -1)

DoVectorMove(v, o) ==
    /\ ~Alive(v) /\ Alive(o)
    /\ Commit(VectorMoveCtor(World(0), v, o), "VectorMove", v, o, -1, -1)

DoDtor(v) ==
    /\ Alive(v)
    /\ Commit(VectorDtor(World(0), v), "Dtor", v, v, -1, -1)

DoCopyAssign(v, o, ft) ==
    /\ Alive(v) /\ Alive(o) /\ CopyConstructible
    /\ LET w == CopyAssign(World(ft), v, o)
       IN Injected(ft, w) /\ Commit(w, "CopyAssign", v, o, -1, -1)

DoMoveAssign(v, o) ==
    /\ Alive(v) /\ Alive(o)
    /\ Commit(MoveAssignVector(World(0), v, o), "MoveAssign", v, o, -1, -1)

DoSwap(v, o) ==
    /\ Alive(v) /\ Alive(o)
    /\ Commit(Swap(World(0), v, o), "Swap", v, o, -1, -1)

DoReserve(v, n, ft) ==
    /\ Alive(v)
    /\ LET w == Reserve(World(ft), v, n)
       IN Injected(ft, w) /\ Commit(w, "Reserve", v, v, n, -1)

DoResize(v, n, ft) ==
    /\ Alive(v)
    /\ LET w == Resize(World(ft), v, n)
       IN Injected(ft, w) /\ Commit(w, "Resize", v, v, n, -1)

\* An append or insert that has to grow stays within the bound lim.
RoomToGrow(v, lim) ==
    vec[v].size_ = vec[v].data_.capacity_ => GrowthCapacity(vec[v].size_) <= lim

DoPushBack(v, x, ft, lim) ==
    /\ Alive(v) /\ RoomToGrow(v, lim)
    /\ LET w == PushBack(World(ft), v, ExtArg(x))
       IN Injected(ft, w) /\ Commit(w, "PushBack", v, v, -1, x)

DoPopBack(v) ==
    /\ Alive(v)
    /\ Commit(PopBack(World(0), v), "PopBack", v, v, -1, -1)

DoInsert(v, k, x, ft, lim) ==
    /\ Alive(v) /\ RoomToGrow(v, lim)
    /\ LET w == Insert(World(ft), v, k, ExtArg(x))
       IN Injected(ft, w) /\ Commit(w, "Insert", v, v, k, x)

\* Insert(begin() + k, (*this)[j]): the value is a reference to an element of
\* the Vector itself (T must be copy constructible)
DoInsertOwn(v, k, j, ft, lim) ==
    /\ Alive(v) /\ CopyConstructible /\ RoomToGrow(v, lim)
    /\ LET w == Insert(World(ft), v, k, RefArg(Ptr(vec[v].data_.buffer_, j)))
       IN Injected(ft, w) /\ Commit(w, "InsertOwn", v, v, k, j)

DoErase(v, k) ==
    /\ Alive(v)
    /\ Commit(Erase(World(0), v, k), "Erase", v, v, k, -1)

\* ------------------------------------------------- stand-alone RawMemory
NoRaw == [alive |-> FALSE, buffer_ |-> NullPtr, capacity_ |-> 0]
AsRaw(r) == [alive |-> TRUE, buffer_ |-> r.buffer_, capacity_ |-> r.capacity_]
Mem(r) == [buffer_ |-> raw[r].buffer_, capacity_ |-> raw[r].capacity_]

CommitRaw(h, rw, op, r, o, n) ==
    /\ LET seq == Owners(vec, rw)
       IN /\ heap' = RenumberHeap(h, seq)
          /\ raw' = RenumberRaw(h, seq, rw)
    /\ last' = [op |-> op, v |-> r, o |-> o, k |-> n, x |-> -1, out |-> "ok",
                ret |-> -1, leak |-> 0, ub |-> 0, realloc |-> FALSE, pre |-> <<>>]
    /\ UNCHANGED <<vec, T, faults>>

DoRawMemory(r) ==
    /\ ~raw[r].alive
    /\ CommitRaw(heap, [raw EXCEPT ![r] = AsRaw(EmptyRawMemory)], "RawMemory", r, r, 0)

DoRawMemorySized(r, n) ==
    /\ ~raw[r].alive
    /\ LET a == RawMemoryCtor(World(0), n)
       IN CommitRaw(a.w.h, [raw EXCEPT ![r] = AsRaw(a.r)], "RawMemorySized", r, r, n)

DoRawMemoryMove(r, o) ==
    /\ ~raw[r].alive /\ raw[o].alive
    /\ LET m == RawMemoryMoveCtor(Mem(o))
       IN CommitRaw(heap, [raw EXCEPT ![r] = AsRaw(m[1]), ![o] = AsRaw(m[2])],
                    "RawMemoryMove", r, o, -1)

DoRawMemoryMoveAssign(r, o) ==
    /\ raw[r].alive /\ raw[o].alive /\ r # o
    /\ LET m == RawMemoryMoveAssign(Mem(r), Mem(o))
       IN CommitRaw(heap, [raw EXCEPT ![r] = AsRaw(m[1]), ![o] = AsRaw(m[2])],
                    "RawMemoryMoveAssign", r, o, -1)

DoRawMemorySwap(r, o) ==
    /\ raw[r].alive /\ raw[o].alive /\ r # o
    /\ LET m == RawMemorySwap(Mem(r), Mem(o))
       IN CommitRaw(heap, [raw EXCEPT ![r] = AsRaw(m[1]), ![o] = AsRaw(m[2])],
                    "RawMemorySwap", r, o, -1)

DoRawMemoryDtor(r) ==
    /\ raw[r].alive
    /\ LET w == RawMemoryDtor(World(0), Mem(r))
       IN CommitRaw(w.h, [raw EXCEPT ![r] = NoRaw], "RawMemoryDtor", r, r, -1)

\* ---------------------------------------------------------- specifications
NoOp == [op |-> "init", v |-> "a", o |-> "a", k |-> -1, x |-> -1, out |-> "ok",
         ret |-> -1, leak |-> 0, ub |-> 0, realloc |-> FALSE, pre |-> <<>>]

Init ==
    /\ heap = [b \in BlockIds |-> FreeBlock]
    /\ vec = [v \in VecIds \cup Locals |->
                 IF v = "a" THEN [alive |-> TRUE, data_ |-> EmptyRawMemory, size_ |-> 0]
                 ELSE NoVector]
    /\ raw = [r \in RawIds |-> NoRaw]
    /\ T \in ElemTypes
    /\ faults = 0
    /\ last = NoOp

\* One Vector, a: every handler that works on one Vector, with failures injected.
Next ==
    \/ DoVector("a")
    \/ \E n \in 0..MaxArg, ft \in FaultsFor(0) : DoVectorSized("a", n, ft)
    \/ DoDtor("a")
    \/ \E n \in 0..MaxArg, ft \in FaultsFor(vec["a"].size_) : DoReserve("a", n, ft)
    \/ \E n \in 0..MaxArg, ft \in FaultsFor(vec["a"].size_) : DoResize("a", n, ft)
    \/ \E x \in Values, ft \in FaultsFor(vec["a"].size_) : DoPushBack("a", x, ft, MaxCap)
    \/ DoPopBack("a")
    \/ \E k \in 0..vec["a"].size_, x \in Values, ft \in FaultsFor(vec["a"].size_) :
          DoInsert("a", k, x, ft, MaxCap)
    \/ \E k \in 0..(vec["a"].size_ - 1) : DoErase("a", k)

Spec == Init /\ [][Next]_vars

\* Two Vectors, a and b, and every handler, with allocation failures injected
\* and no constructor throwing.  While a is the only Vector it may grow as
\* above; b comes to exist only when a's capacity is within MaxCapPair, and
\* while b exists every capacity and every argument n stays within MaxCapPair.
Lone(v) == v = "a" /\ ~Alive("b")
Small == \A u \in VecIds : vec[u].data_.capacity_ <= MaxCapPair
Turn == IF Small THEN VecIds ELSE {"a"}
CapLimit(v) == IF Lone(v) THEN MaxCap ELSE MaxCapPair
ArgLimit(v) == IF Lone(v) THEN MaxArg ELSE MaxCapPair
AllocFaults == {-1, 0}

NextAll ==
    \E v \in Turn, ft \in AllocFaults :
        \/ ft = 0 /\ DoVector(v)
        \/ \E n \in 0..ArgLimit(v) : DoVectorSized(v, n, ft)
        \/ ft = 0 /\ DoDtor(v)
        \/ \E n \in 0..ArgLimit(v) : DoReserve(v, n, ft)
        \/ \E n \in 0..ArgLimit(v) : DoResize(v, n, ft)
        \/ \E x \in Values : DoPushBack(v, x, ft, CapLimit(v))
        \/ ft = 0 /\ DoPopBack(v)
        \/ \E k \in 0..vec[v].size_, x \in Values : DoInsert(v, k, x, ft, CapLimit(v))
        \/ \E k \in 0..(vec[v].size_ - 1) : ft = 0 /\ DoErase(v, k)
        \/ \E o \in VecIds : DoVectorCopy(v, o, ft)
        \/ \E o \in VecIds : ft = 0 /\ DoVectorMove(v, o)
        \/ \E o \in VecIds : DoCopyAssign(v, o, ft)
        \/ \E o \in VecIds : ft = 0 /\ DoMoveAssign(v, o)
        \/ \E o \in VecIds : ft = 0 /\ DoSwap(v, o)

SpecAll == Init /\ [][NextAll]_vars

\* One Vector, a, built by Reserve, PushBack and PopBack, into which its own
\* elements are inserted; no failure injected.
NextOwn ==
    \/ \E n \in 0..MaxArg : DoReserve("a", n, 0)
    \/ \E x \in Values : DoPushBack("a", x, 0, MaxCap)
    \/ DoPopBack("a")
    \/ \E k \in 0..vec["a"].size_, j \in 0..(vec["a"].size_ - 1) :
          DoInsertOwn("a", k, j, 0, MaxCap)

SpecOwn == Init /\ [][NextOwn]_vars

\* Stand-alone RawMemory objects r1 and r2.
InitRaw == Init /\ T = "int"

NextRaw ==
    \E r \in RawIds :
        \/ DoRawMemory(r)
        \/ \E n \in 0..MaxRawCap : DoRawMemorySized(r, n)
        \/ \E o \in RawIds : DoRawMemoryMove(r, o)
        \/ \E o \in RawIds : DoRawMemoryMoveAssign(r, o)
        \/ \E o \in RawIds : DoRawMemorySwap(r, o)
        \/ DoRawMemoryDtor(r)

SpecRaw == InitRaw /\ [][NextRaw]_vars

\* ------------------------------------------------------------- properties
Max(a, b) == IF a > b THEN a ELSE b

\* The partition of a Vector's block: size <= capacity, the block has capacity
\* slots, slots [0, size) hold live objects and slots [size, capacity) are raw.
Partition(v) ==
    /\ vec[v].size_ <= vec[v].data_.capacity_
    /\ Len(Slots(v)) = vec[v].data_.capacity_
    /\ \A i \in 1..vec[v].data_.capacity_ : IsLive(Slots(v)[i]) <=> i <= vec[v].size_

\* C1: after any sequence of operations that completed (constructors, PushBack,
\* PopBack, Insert, Erase, Resize, Reserve, copy and move assignment, Swap,
\* destructor), every Vector has size <= capacity, exactly its slots [0, size)
\* hold live elements and its slots [size, capacity) are raw.
PartitionHolds == \A v \in VecIds : Alive(v) => Partition(v)

\* C1's case: an Insert has shifted elements in place in a block with a raw
\* slot left behind the elements.
PartitionAfterInsertInPlace ==
    /\ last.op = "Insert" /\ ~last.realloc /\ last.k = 1
    /\ vec["a"].size_ = 3 /\ vec["a"].data_.capacity_ = 4

\* C2: the Vector starts empty, and every PushBack that completes on a valid
\* Vector leaves the elements it had followed by the appended value, size one
\* larger, whether or not the block was relocated; so N appends to an empty
\* Vector give size N and element i equal to the i-th appended value.
AppendsInOrder ==
    [][/\ last'.op = "Vector" => Elems("a")' = <<>>
       /\ (Alive("a") /\ Partition("a") /\ last'.op = "PushBack" /\ last'.out = "ok")
          => /\ Elems("a")' = Append(Elems("a"), last'.x)
             /\ vec'["a"].size_ = vec["a"].size_ + 1]_vars

\* C2's case: the third append relocated the block and the three values
\* appended are there in order.
ThreeAppended ==
    /\ last.op = "PushBack" /\ last.out = "ok" /\ last.realloc /\ faults = 0
    /\ Elems("a") = <<0, 1, 1>>

\* C3: when a copy constructor throws inside Insert on a full Vector of
\* Throwers at a position before the end, the Vector's size, capacity and the
\* values and liveness of all its slots are as they were before the call.
InsertThrowLeavesVector ==
    [][(/\ Alive("a") /\ Partition("a") /\ T = "Thrower"
        /\ last'.op = "Insert" /\ last'.out = "throw"
        /\ vec["a"].size_ = vec["a"].data_.capacity_ /\ last'.k < vec["a"].size_)
       => /\ vec'["a"].size_ = vec["a"].size_
          /\ vec'["a"].data_.capacity_ = vec["a"].data_.capacity_
          /\ Slots("a")' = Slots("a")]_vars

\* C4: when a constructor throws inside an append or an insert on a full
\* Vector, no object is left alive in the block that is released (no leak) and
\* every element the Vector counts is still alive (none was destroyed).
ThrowDestroysWhatItBuilt ==
    [][(/\ Alive("a") /\ Partition("a")
        /\ last'.op \in {"PushBack", "Insert"} /\ last'.out = "throw"
        /\ vec["a"].size_ = vec["a"].data_.capacity_)
       => /\ last'.leak = 0
          /\ \A i \in 1..vec'["a"].size_ : IsLive(Slots("a")'[i])]_vars

\* What C5 says of a call in which relocation threw: size, capacity and every
\* slot as before, and of the objects built in the new block none left alive
\* but, on an append, the appended element (which C4 is about).
RelocationThrow ==
    /\ Alive("a") /\ Partition("a") /\ last'.out = "throw"
    /\ \/ last'.op = "Reserve" /\ last'.k > vec["a"].data_.capacity_
       \/ last'.op = "PushBack" /\ vec["a"].size_ = vec["a"].data_.capacity_
VectorUnchanged ==
    /\ vec'["a"].size_ = vec["a"].size_
    /\ vec'["a"].data_.capacity_ = vec["a"].data_.capacity_
    /\ Slots("a")' = Slots("a")
    /\ last'.leak <= (IF last'.op = "PushBack" THEN 1 ELSE 0)

\* C5, as the code has it: for an element type that is relocated by copy, or
\* by a move that cannot throw, a throw while Reserve(n), n > capacity, or a
\* growing append relocates the elements leaves the Vector's size, capacity
\* and elements as before the call, the old block untouched and the elements
\* the relocation had built in the new block destroyed.
RelocationThrowLeavesVector ==
    [][(RelocationThrow /\ (CopyConstructible \/ NothrowMoveConstructible))
       => VectorUnchanged]_vars

\* C5's case: Reserve threw while copying two Throwers into the new block.
ReserveThrew ==
    /\ last.op = "Reserve" /\ last.out = "throw" /\ T = "Thrower"
    /\ vec["a"].size_ = 2 /\ last.k > vec["a"].data_.capacity_

\* C5 as the claim states it, for every element type.
RelocationThrowLeavesAnyVector == [][RelocationThrow => VectorUnchanged]_vars

\* C6: an Insert of a value of the caller's at offset k, 0 <= k <= size, that
\* completes on a valid Vector holding s leaves s[0..k) ++ [value] ++ s[k..size),
\* size one larger, and returns begin() + k: appending, relocating or shifting
\* in place.
InsertPlacesValue ==
    [][(Alive("a") /\ Partition("a") /\ last'.op = "Insert" /\ last'.out = "ok")
       => /\ Elems("a")' = SubSeq(Elems("a"), 1, last'.k) \o <<last'.x>>
                             \o SubSeq(Elems("a"), last'.k + 1, vec["a"].size_)
          /\ vec'["a"].size_ = vec["a"].size_ + 1
          /\ last'.ret = last'.k]_vars

\* C6's case: 1 was inserted at offset 0 of a Vector with spare capacity,
\* shifting two elements.
InsertedInPlace ==
    /\ last.op = "Insert" /\ last.out = "ok" /\ ~last.realloc
    /\ last.k = 0 /\ last.x = 1 /\ Elems("a") = <<1, 0, 1>>

\* C7: a Resize(n) that completes on a valid Vector sets size to n, leaves the
\* elements [0, min(old size, n)) as they were, and every newly exposed slot
\* [old size, n) holds the default value 0.
ResizeExposesDefaults ==
    [][(Alive("a") /\ Partition("a") /\ last'.op = "Resize" /\ last'.out = "ok")
       => /\ vec'["a"].size_ = last'.k
          /\ \A i \in 1..Min(vec["a"].size_, last'.k) : Slots("a")'[i] = Slots("a")[i]
          /\ \A i \in (vec["a"].size_ + 1)..last'.k : Slots("a")'[i] = 0]_vars

\* C8: a RawMemory move, by constructor or by assignment, gives the
\* destination the source's capacity and a block of that many slots, and
\* leaves the source with no block and capacity 0.
RawMoveEmptiesSource ==
    [][last'.op \in {"RawMemoryMove", "RawMemoryMoveAssign"}
       => /\ raw'[last'.o].buffer_ = NullPtr
          /\ raw'[last'.o].capacity_ = 0
          /\ raw'[last'.v].capacity_ = raw[last'.o].capacity_
          /\ (raw'[last'.v].buffer_ = NullPtr) <=> (raw'[last'.v].capacity_ = 0)]_vars

\* C9, as the code has it: a Vector's capacity is smaller after an operation
\* than before it only when the operation exchanged its block with another
\* Vector's (move assignment, Swap) or moved its block out (the source of a
\* move construction); every other operation, copy assignment included,
\* leaves capacity greater than or equal to its previous value.
CapacityShrinksOnlyByExchange ==
    [][\A u \in VecIds :
          (Alive(u) /\ vec'[u].alive /\ vec'[u].data_.capacity_ < vec[u].data_.capacity_)
          => last'.op \in {"MoveAssign", "Swap", "VectorMove"}]_vars

\* C9's case: a move assignment left its destination with the smaller
\* capacity the source had.
MoveAssignShrank ==
    /\ last.op = "MoveAssign" /\ last.v # last.o
    /\ vec[last.v].data_.capacity_ < vec[last.o].data_.capacity_

\* C9 as the claim states it: only copy assignment makes a capacity smaller.
CapacityShrinksOnlyByCopyAssign ==
    [][\A u \in VecIds :
          (Alive(u) /\ vec'[u].alive /\ vec'[u].data_.capacity_ < vec[u].data_.capacity_)
          => last'.op = "CopyAssign"]_vars

\* C10: an append or insert that completes on a full Vector leaves capacity
\* max(1, 2 * size before the call); on a Vector with spare capacity it leaves
\* capacity unchanged.
GrowthDoubles ==
    [][(Alive("a") /\ last'.op \in {"PushBack", "Insert"} /\ last'.out = "ok")
       => vec'["a"].data_.capacity_ =
             IF vec["a"].size_ = vec["a"].data_.capacity_
             THEN Max(1, 2 * vec["a"].size_)
             ELSE vec["a"].data_.capacity_]_vars

\* C10's case: an Insert before the end of a full Vector of two elements grew
\* the capacity to four.
InsertGrewToFour ==
    /\ last.op = "Insert" /\ last.out = "ok" /\ last.realloc /\ last.k = 1
    /\ vec["a"].size_ = 3 /\ vec["a"].data_.capacity_ = 4

\* C11: on a Vector holding s, an Insert at offset k, 0 <= k <= size, followed
\* by an Erase at offset k leaves size and elements equal to s, whether the
\* Insert appended, relocated or shifted in place.
InsertThenEraseRestores ==
    [][(/\ last.op = "Insert" /\ last.out = "ok"
        /\ last'.op = "Erase" /\ last'.v = last.v /\ last'.k = last.k)
       => /\ Elems(last.v)' = last.pre
          /\ vec'[last.v].size_ = Len(last.pre)]_vars

\* C11's case: 1 was inserted at offset 1 of <<0, 1, 0>> by shifting in place,
\* and the Erase at offset 1 is the next call.
InsertedBeforeErase ==
    /\ last.op = "Insert" /\ last.out = "ok" /\ ~last.realloc /\ last.k = 1
    /\ last.pre = <<0, 1, 0>> /\ Elems("a") = <<0, 1, 1, 0>>

\* What a Vector holds: its size, its capacity and its elements.
Held(v) == [size |-> vec[v].size_, capacity |-> vec[v].data_.capacity_, elems |-> Elems(v)]

\* C12: a move construction gives the new Vector the size, capacity and
\* elements the source had and leaves the source with size 0 and capacity 0;
\* a move assignment a = std::move(b) leaves a holding what b held and b
\* holding what a held; in both the source is still a Vector whose partition
\* holds.
MoveTransfers ==
    [][/\ last'.op = "VectorMove"
          => /\ vec'[last'.o].size_ = 0 /\ vec'[last'.o].data_.capacity_ = 0
             /\ Held(last.v)' = Held(last'.o)
             /\ vec'[last'.o].alive /\ Partition(last.o)'
       /\ last'.op = "MoveAssign"
          => /\ Held(last.v)' = Held(last'.o)
             /\ Held(last.o)' = Held(last'.v)
             /\ vec'[last'.o].alive /\ Partition(last.o)']_vars

\* C12's case: a Vector was move-constructed from one that held an element.
MovedOut ==
    /\ last.op = "VectorMove" /\ Alive(last.o)
    /\ vec[last.v].size_ = 1 /\ vec[last.o].data_.capacity_ = 0

\* C13: a copy construction from b, or a copy assignment a = b (reallocating,
\* reusing storage with b smaller or larger, or a = a), that completes leaves
\* the destination with b's size and elements and b as it was; two Vectors
\* never own the same block, and an operation on one Vector leaves the size,
\* capacity and elements of the other as they were.
CopyIsDeep ==
    [][/\ (last'.op \in {"VectorCopy", "CopyAssign"} /\ last'.out = "ok")
          => /\ vec'[last'.v].size_ = vec[last'.o].size_
             /\ Elems(last.v)' = Elems(last'.o)
             /\ Held(last.o)' = Held(last'.o)
       /\ last'.op \notin {"VectorMove", "MoveAssign", "Swap"}
          => \A u \in VecIds \ {last'.v} : vec'[u].alive = vec[u].alive /\ Held(u)' = Held(u)
       /\ (vec'["a"].alive /\ vec'["b"].alive /\ vec'["a"].data_.buffer_ # NullPtr)
          => vec'["a"].data_.buffer_ # vec'["b"].data_.buffer_]_vars

\* C13's case: a copy assignment reused the destination's block and both
\* Vectors hold <<1>>, each in a block of its own.
CopiedInPlace ==
    /\ last.op = "CopyAssign" /\ last.out = "ok" /\ last.v # last.o /\ ~last.realloc
    /\ Elems("a") = <<1>> /\ Elems("b") = <<1>>

\* C14: when the allocation of a new block fails inside a handler (Reserve,
\* growing Resize, growing append, Insert with relocation, reallocating copy
\* assignment, a constructor), the handler throws and every Vector and every
\* block is exactly as before the call.
AllocationFailureChangesNothing ==
    [][last'.out = "bad_alloc" => vec' = vec /\ heap' = heap /\ last'.leak = 0]_vars

\* C14's case: the allocation failed in an Insert before the end of a full
\* Vector of two elements.
InsertCouldNotAllocate ==
    /\ last.op = "Insert" /\ last.out = "bad_alloc" /\ last.k = 1
    /\ vec["a"].size_ = 2 /\ vec["a"].data_.capacity_ = 2

\* C15: a Reserve(n) that completes on a valid Vector changes nothing when
\* n <= capacity (size, capacity, elements and the block itself are as they
\* were); when n > capacity it leaves capacity exactly n and size and elements
\* as they were.
ReserveKeepsElements ==
    [][(Alive("a") /\ Partition("a") /\ last'.op = "Reserve" /\ last'.out = "ok")
       => IF last'.k <= vec["a"].data_.capacity_
          THEN vec' = vec /\ heap' = heap /\ ~last'.realloc
          ELSE /\ vec'["a"].data_.capacity_ = last'.k
               /\ vec'["a"].size_ = vec["a"].size_
               /\ Elems("a")' = Elems("a")]_vars

\* C15's case: Reserve(3) moved the two elements <<0, 1>> to a block of three
\* slots.
ReservedThree ==
    /\ last.op = "Reserve" /\ last.out = "ok" /\ last.k = 3 /\ last.realloc
    /\ Elems("a") = <<0, 1>> /\ vec["a"].data_.capacity_ = 3

\* C16: an Erase at offset k, 0 <= k < size, of a valid Vector holding s
\* leaves s[0..k) ++ s[k+1..size), size one smaller and capacity as it was,
\* and returns begin() + k: the element that followed the erased one, or
\* end() when the last element was erased.
EraseClosesGap ==
    [][(Alive("a") /\ Partition("a") /\ last'.op = "Erase")
       => /\ Elems("a")' = SubSeq(Elems("a"), 1, last'.k)
                             \o SubSeq(Elems("a"), last'.k + 2, vec["a"].size_)
          /\ vec'["a"].size_ = vec["a"].size_ - 1
          /\ vec'["a"].data_.capacity_ = vec["a"].data_.capacity_
          /\ last'.ret = last'.k
          /\ IF last'.k = vec["a"].size_ - 1
             THEN last'.ret = vec'["a"].size_
             ELSE Elems("a")'[last'.ret + 1] = Elems("a")[last'.k + 2]]_vars

\* C16's case: the first of three elements <<1, 0, 1>> was erased, shifting
\* the two others.
ErasedFirst ==
    /\ last.op = "Erase" /\ last.k = 0 /\ last.ret = 0
    /\ Elems("a") = <<0, 1>> /\ vec["a"].data_.capacity_ = 4

\* C17: an Insert at offset k of a reference to the Vector's own element j
\* that completes on a valid Vector holding s leaves s[0..k) ++ [s[j]] ++
\* s[k..size): the value element j held before the call is the one inserted,
\* shifting in place or relocating.
InsertOwnElementKeepsValue ==
    [][(Alive("a") /\ Partition("a") /\ last'.op = "InsertOwn" /\ last'.out = "ok")
       => Elems("a")' = SubSeq(Elems("a"), 1, last'.k) \o <<Elems("a")[last'.x + 1]>>
                          \o SubSeq(Elems("a"), last'.k + 1, vec["a"].size_)]_vars

=============================================================================
